---------------------------- MODULE Spec2Model ----------------------------
(***************************************************************************)
(* Session playback and real-time delivery of radiology instructions.      *)
(*                                                                         *)
(* Two deployment variants share the staff console's session logic:        *)
(*   "relay"  : Express + Socket.io server (src/unnamed/part_001) relaying *)
(*              between StaffDashboard (src/src/pages/StaffDashboard.tsx)  *)
(*              and PatientDisplay (src/unnamed/part_000), sockets being   *)
(*              created by App (src/src/App.tsx);                          *)
(*   "direct" : PeerJS data connection between StaffDashboard              *)
(*              (src/unnamed/part_002) and PatientDisplay                  *)
(*              (src/unnamed/part_003) with the local store                *)
(*              (src/src/lib/db.ts).                                       *)
(* The variant is fixed by Init; the actions of one variant are disabled   *)
(* in the other.                                                           *)
(***************************************************************************)
EXTENDS Integers, Sequences, FiniteSets, TLC

\* ------------------------------------------------------------------ bounds
MaxQueue == 2       \* messages in flight from a client / on a link
MaxInbox == 1       \* messages in flight from the server to one socket
MaxId == 4          \* step identities ever allocated
MaxFetch == 1       \* concurrent fetchScenarios() calls per console
MaxTimers == 2      \* pending setTimeout re-checks on the server
MaxPending == 2     \* sendInstruction calls awaiting media.arrayBuffer()
MaxEdits == 1       \* store edits (create / update / delete of a step)

\* ------------------------------------------------------------- universe
Controllers == {"c1", "c2"}
Displays == {"d1"}
Clients == Controllers \cup Displays
DirectClients == {"c1", "d1"}   \* one console dials one display
ConnIds == 1..2                 \* DataConnection objects of the console's Peer
Scenarios == {1, 2}
Ids == 1..MaxId
Indices == -1..3    \* arguments tried for goToStep(index)

NULL == 0           \* no scenario / no connection
NoInst == [id |-> 0, scenario_id |-> 0, sort_order |-> 0, media |-> FALSE]
NoCall == [phase |-> "none"]   \* no store call in progress
Null == [null |-> TRUE]        \* a JavaScript null where an object may stand

VARIABLES
  variant,                \* "relay" | "direct"
  instructions,           \* the store's instruction rows
  usedIds,                \* identities already handed out by uuidv4()
  edits,                  \* number of store edits made so far
  \* relay server (part_001)
  patientConnected, currentInstruction, patient_room, staff_room,
  connected, timers,
  \* sockets (socket.io client <-> server)
  sock, toSrv, toCli,
  \* staff console (StaffDashboard)
  mounted, activeScenarioId, currentStepIndex, viewMode,
  instructionsByScenario, staffPatientConnected, fetches,
  \* patient display (PatientDisplay)
  instruction,
  \* direct-code pairing (part_002 / part_003)
  isConnecting, connRef, pendingSends, chan, link, isConnected,
  \* observers (history only; never read by the modelled code)
  script, rxConn, freshLinks, lastRx,
  \* the scenario table and the store calls in progress (db.ts, part_001)
  scenarios, deleting, updating,
  \* the display's object URL of the shown media (part_003)
  mediaUrl

storeVars == <<instructions, usedIds, edits>>
serverVars == <<patientConnected, currentInstruction, patient_room,
                staff_room, connected, timers>>
socketVars == <<sock, toSrv, toCli>>
sessionVars == <<activeScenarioId, currentStepIndex, viewMode>>
staffVars == <<mounted, activeScenarioId, currentStepIndex, viewMode,
               instructionsByScenario, staffPatientConnected, fetches>>
directVars == <<isConnecting, connRef, pendingSends, chan, link,
                isConnected>>
observerVars == <<script, rxConn, freshLinks, lastRx>>
catalogVars == <<scenarios, deleting, updating>>
vars == <<variant, instructions, usedIds, edits, patientConnected,
          currentInstruction, patient_room, staff_room, connected, timers,
          sock, toSrv, toCli, mounted, activeScenarioId, currentStepIndex,
          viewMode, instructionsByScenario, staffPatientConnected, fetches,
          instruction, isConnecting, connRef, pendingSends, chan, link,
          isConnected, script, rxConn, freshLinks, lastRx, scenarios,
          deleting, updating, mediaUrl>>

\* ------------------------------------------------------------ the store
Row(i, s, o) == [id |-> i, scenario_id |-> s, sort_order |-> o, media |-> FALSE]

\* The store at start: two scenarios as POST /api/scenarios (db.createScenario)
\* creates them, with stepsCount 2 and 1: steps of sort_order 1..stepsCount.
SeedRows == {Row(1, 1, 1), Row(2, 1, 2), Row(3, 2, 1)}

RowsOf(s) == {r \in instructions : r.scenario_id = s}

RECURSIVE OrderBySortOrder(_)
OrderBySortOrder(S) ==
  IF S = {} THEN <<>>
  ELSE LET m == CHOOSE r \in S : \A q \in S :
                   \/ r.sort_order < q.sort_order
                   \/ (r.sort_order = q.sort_order /\ r.id <= q.id)
       IN <<m>> \o OrderBySortOrder(S \ {m})

RECURSIVE OrderByKey(_)
OrderByKey(S) ==
  IF S = {} THEN <<>>
  ELSE LET m == CHOOSE r \in S : \A q \in S : r.id <= q.id
       IN <<m>> \o OrderByKey(S \ {m})

\* GET /api/scenarios/:id/instructions ... ORDER BY sort_order ASC
ServerGetInstructions(s) == OrderBySortOrder(RowsOf(s))

\* db.getInstructions: the rows of the scenario in instructionsStore.keys() order
DbGetInstructions(s) == OrderByKey(RowsOf(s))

GetInstructions(s) ==
  IF variant = "relay" THEN ServerGetInstructions(s) ELSE DbGetInstructions(s)

MaxSortOrder(s) ==
  IF RowsOf(s) = {} THEN 0
  ELSE CHOOSE n \in {r.sort_order : r \in RowsOf(s)} :
         \A r \in RowsOf(s) : r.sort_order <= n


NewId == CHOOSE i \in Ids \ usedIds : \A j \in Ids \ usedIds : i <= j

\* --------------------------------------------------------------- messages
RegisterRole(role) == [type |-> "register_role", role |-> role]
SendInstructionMsg(inst) == [type |-> "send_instruction", inst |-> inst]
ClearInstructionMsg == [type |-> "clear_instruction"]
PlayInstruction(inst, via) == [type |-> "play_instruction", inst |-> inst, via |-> via]
PatientStatus(b) == [type |-> "patient_status", connected |-> b]
InstructionsUpdated == [type |-> "instructions_updated"]
ScenariosUpdated == [type |-> "scenarios_updated"]
DataInstruction(inst) == [type |-> "instruction", payload |-> inst]
DataClear == [type |-> "clear"]

\* io.emit / io.to(room).emit: the message is queued for every socket of S.
\* Only sockets whose page registered a handler for the event are listed by
\* the callers (a display has none for patient_status / instructions_updated,
\* a console none for history_updated).
Broadcast(q, S, m) == [x \in Clients |-> IF x \in S THEN Append(q[x], m) ELSE q[x]]
Room(S) == \A x \in S : Len(toCli[x]) < MaxInbox

\* ------------------------------------------------------- console helpers
\* instructionsByScenario[scenarioId] || []
Loaded(c, s) ==
  IF s \in DOMAIN instructionsByScenario[c] THEN instructionsByScenario[c][s]
  ELSE <<>>

\* script[c] observes console c: since its last startSession on a non-empty
\* list it has made k accepted goToStep(cursor + 1) calls and nothing else
\* ("run"), possibly followed by endSession ("ended"); over records a
\* goToStep(cursor + 1) that was refused; sent counts the messages the
\* console emitted in that run.
\* freshLinks: the connections that have opened at the console and since
\* whose opening no startSession / goToStep / endSession has been called.
\* lastRx[d]: the last message or close that display d's page has handled.
NoRx == [kind |-> "none", inst |-> NoInst]
Rx(kind, inst) == [kind |-> kind, inst |-> inst]

NoScript == [phase |-> "none", k |-> 0, sent |-> 0, over |-> FALSE]
NewFetch == [todo |-> <<1, 2>>, instMap |-> <<>>]

\* direct-code sendInstruction, up to its first await
DirectCanSend(c) == connRef[c] # NULL /\ staffPatientConnected[c]
CanEmit(c) ==
  IF variant = "relay" THEN Len(toSrv[c]) < MaxQueue
  ELSE /\ Len(pendingSends[c]) < MaxPending
       /\ connRef[c] # NULL => Len(link[connRef[c]]) < MaxQueue

\* socket?.emit('send_instruction', inst)  |  sendInstruction(inst)
SendInstruction(c, inst) ==
  IF variant = "relay"
  THEN /\ toSrv' = [toSrv EXCEPT ![c] = Append(@, SendInstructionMsg(inst))]
       /\ UNCHANGED <<pendingSends, link>>
  ELSE /\ UNCHANGED toSrv
       /\ IF ~DirectCanSend(c) THEN UNCHANGED <<pendingSends, link>>
          ELSE IF inst.media
          THEN /\ pendingSends' = [pendingSends EXCEPT ![c] = Append(@, inst)]
               /\ UNCHANGED link
          ELSE /\ link' = [link EXCEPT ![connRef[c]] =
                             IF chan[connRef[c]].st = "open"
                             THEN Append(@, DataInstruction(inst)) ELSE @]
               /\ UNCHANGED pendingSends

\* socket?.emit('clear_instruction')  |  clearInstruction()
ClearInstruction(c) ==
  IF variant = "relay"
  THEN /\ toSrv' = [toSrv EXCEPT ![c] = Append(@, ClearInstructionMsg)]
       /\ UNCHANGED <<pendingSends, link>>
  ELSE /\ UNCHANGED <<toSrv, pendingSends>>
       /\ link' = IF DirectCanSend(c) /\ chan[connRef[c]].st = "open"
                  THEN [link EXCEPT ![connRef[c]] = Append(@, DataClear)]
                  ELSE link

NoSend == UNCHANGED <<toSrv, pendingSends, link>>

\* ------------------------------------------------------ session operations
\* The range test with its upper bound taken inclusively.
InRangeInclusive(index, insts) == index >= 0 /\ index <= Len(insts)

InRange(index, insts) == index >= 0 /\ index < Len(insts)

\* instructions[index] of a JavaScript array (undefined outside its bounds)
At(insts, index) ==
  IF index + 1 \in DOMAIN insts THEN insts[index + 1] ELSE NoInst

\* A start that sends the step under the cursor it had before the call.
StartSessionSendsCurrent(c, scenarioId) ==
  /\ mounted[c] /\ CanEmit(c)
  /\ activeScenarioId' = [activeScenarioId EXCEPT ![c] = scenarioId]
  /\ currentStepIndex' = [currentStepIndex EXCEPT ![c] = 0]
  /\ viewMode' = [viewMode EXCEPT ![c] = "session"]
  /\ LET insts == Loaded(c, scenarioId) IN
       /\ IF Len(insts) > 0
          THEN SendInstruction(c, At(insts, currentStepIndex[c]))
          ELSE NoSend
       /\ script' = [script EXCEPT ![c] =
            IF Len(insts) > 0 /\ variant = "relay"
            THEN [phase |-> "run", k |-> 0, sent |-> 1, over |-> FALSE]
            ELSE NoScript]
  /\ UNCHANGED <<variant, catalogVars, mediaUrl,
                 storeVars, serverVars, sock, toCli, mounted,
                 instructionsByScenario, staffPatientConnected, fetches,
                 instruction, isConnecting, connRef, chan, isConnected, rxConn,
                 lastRx>>
  /\ freshLinks' = {}

StartSession(c, scenarioId) ==
  /\ mounted[c] /\ CanEmit(c)
  /\ activeScenarioId' = [activeScenarioId EXCEPT ![c] = scenarioId]
  /\ currentStepIndex' = [currentStepIndex EXCEPT ![c] = 0]
  /\ viewMode' = [viewMode EXCEPT ![c] = "session"]
  /\ LET insts == Loaded(c, scenarioId) IN
       /\ IF Len(insts) > 0 THEN SendInstruction(c, At(insts, 0)) ELSE NoSend
       /\ script' = [script EXCEPT ![c] =
            IF Len(insts) > 0 /\ variant = "relay"
            THEN [phase |-> "run", k |-> 0, sent |-> 1, over |-> FALSE]
            ELSE NoScript]
  /\ UNCHANGED <<variant, catalogVars, mediaUrl,
                 storeVars, serverVars, sock, toCli, mounted,
                 instructionsByScenario, staffPatientConnected, fetches,
                 instruction, isConnecting, connRef, chan, isConnected, rxConn,
                 lastRx>>
  /\ freshLinks' = {}

EndSession(c) ==
  /\ mounted[c] /\ CanEmit(c)
  /\ activeScenarioId' = [activeScenarioId EXCEPT ![c] = NULL]
  /\ currentStepIndex' = [currentStepIndex EXCEPT ![c] = 0]
  /\ viewMode' = [viewMode EXCEPT ![c] = "list"]
  /\ ClearInstruction(c)
  /\ script' = [script EXCEPT ![c] =
       IF @.phase = "run"
       THEN [@ EXCEPT !.phase = "ended", !.sent = @ + 1] ELSE NoScript]
  /\ UNCHANGED <<variant, catalogVars, mediaUrl,
                 storeVars, serverVars, sock, toCli, mounted,
                 instructionsByScenario, staffPatientConnected, fetches,
                 instruction, isConnecting, connRef, chan, isConnected, rxConn,
                 lastRx>>
  /\ freshLinks' = {}

\* A goToStep that moves the cursor also when no session is active.
GoToStepFromIdle(c, index) ==
  /\ mounted[c] /\ CanEmit(c)
  /\ IF activeScenarioId[c] = NULL
     THEN /\ currentStepIndex' = [currentStepIndex EXCEPT ![c] = index]
          /\ UNCHANGED <<toSrv, pendingSends, link, script>>
     ELSE LET insts == Loaded(c, activeScenarioId[c])
              sc == script[c]
              next == index = currentStepIndex[c] + 1
          IN IF InRange(index, insts)
             THEN /\ currentStepIndex' = [currentStepIndex EXCEPT ![c] = index]
                  /\ SendInstruction(c, At(insts, index))
                  /\ script' = [script EXCEPT ![c] =
                       IF sc.phase = "run" /\ next /\ ~sc.over
                       THEN [sc EXCEPT !.k = @ + 1, !.sent = @ + 1]
                       ELSE NoScript]
             ELSE /\ UNCHANGED <<currentStepIndex, toSrv, pendingSends, link>>
                  /\ script' = [script EXCEPT ![c] =
                       IF sc.phase = "run" /\ next
                       THEN [sc EXCEPT !.over = TRUE] ELSE NoScript]
  /\ UNCHANGED <<variant, catalogVars, mediaUrl,
                 storeVars, serverVars, sock, toCli, mounted,
                 activeScenarioId, viewMode, instructionsByScenario,
                 staffPatientConnected, fetches, instruction, isConnecting,
                 connRef, chan, isConnected, rxConn, lastRx>>
  /\ freshLinks' = {}

GoToStep(c, index) ==
  /\ mounted[c] /\ CanEmit(c)
  /\ IF activeScenarioId[c] = NULL
     THEN UNCHANGED <<currentStepIndex, toSrv, pendingSends, link, script>>
     ELSE LET insts == Loaded(c, activeScenarioId[c])
              sc == script[c]
              next == index = currentStepIndex[c] + 1
          IN IF InRange(index, insts)
             THEN /\ currentStepIndex' = [currentStepIndex EXCEPT ![c] = index]
                  /\ SendInstruction(c, At(insts, index))
                  /\ script' = [script EXCEPT ![c] =
                       IF sc.phase = "run" /\ next /\ ~sc.over
                       THEN [sc EXCEPT !.k = @ + 1, !.sent = @ + 1]
                       ELSE NoScript]
             ELSE /\ UNCHANGED <<currentStepIndex, toSrv, pendingSends, link>>
                  /\ script' = [script EXCEPT ![c] =
                       IF sc.phase = "run" /\ next
                       THEN [sc EXCEPT !.over = TRUE] ELSE NoScript]
  /\ UNCHANGED <<variant, catalogVars, mediaUrl,
                 storeVars, serverVars, sock, toCli, mounted,
                 activeScenarioId, viewMode, instructionsByScenario,
                 staffPatientConnected, fetches, instruction, isConnecting,
                 connRef, chan, isConnected, rxConn, lastRx>>
  /\ freshLinks' = {}


\* ------------------------------------------------------- fetchScenarios
\* One awaited GET per scenario; the continuation of the last one also runs
\* setInstructionsByScenario(instMap).
FetchStep(c) ==
  /\ mounted[c] /\ fetches[c] # <<>>
  /\ \E i \in 1..Len(fetches[c]) :
       LET f == fetches[c][i]
           s == Head(f.todo)
           m == [x \in DOMAIN f.instMap \cup {s} |->
                   IF x = s THEN GetInstructions(s) ELSE f.instMap[x]]
           rest == [j \in 1..(Len(fetches[c]) - 1) |->
                      IF j < i THEN fetches[c][j] ELSE fetches[c][j + 1]]
       IN IF Len(f.todo) > 1
          THEN /\ fetches' = [fetches EXCEPT ![c][i] =
                                [todo |-> Tail(f.todo), instMap |-> m]]
               /\ UNCHANGED <<instructionsByScenario, script>>
          ELSE /\ fetches' = [fetches EXCEPT ![c] = rest]
               /\ instructionsByScenario' =
                    [instructionsByScenario EXCEPT ![c] = m]
               /\ script' = [script EXCEPT ![c] =
                    IF m = instructionsByScenario[c] THEN @ ELSE NoScript]
  /\ UNCHANGED <<variant, catalogVars, mediaUrl,
                 storeVars, serverVars, socketVars, mounted,
                 sessionVars, staffPatientConnected, instruction,
                 directVars, rxConn, freshLinks, lastRx>>

\* ------------------------------------------------------------ store edits
\* POST /api/scenarios/:scenarioId/instructions, by some console; the INSERT
\* throws on the foreign key when the scenario row is gone.
CreateInstruction(s) ==
  /\ variant = "relay"
  /\ s \in scenarios
  /\ \E c \in Controllers : mounted[c]
  /\ usedIds # Ids /\ edits < MaxEdits
  /\ Room(connected \cap Controllers)
  /\ instructions' = instructions \cup {Row(NewId, s, MaxSortOrder(s) + 1)}
  /\ usedIds' = usedIds \cup {NewId}
  /\ edits' = edits + 1
  /\ toCli' = Broadcast(toCli, connected \cap Controllers, InstructionsUpdated)
  /\ UNCHANGED <<variant, catalogVars, mediaUrl,
                 serverVars, sock, toSrv, staffVars, instruction,
                 directVars, observerVars>>

\* DELETE /api/instructions/:id, by some console
DeleteInstruction(id) ==
  /\ variant = "relay"
  /\ \E c \in Controllers : mounted[c]
  /\ \E r \in instructions : r.id = id
  /\ edits < MaxEdits
  /\ Room(connected \cap Controllers)
  /\ instructions' = {r \in instructions : r.id # id}
  /\ edits' = edits + 1
  /\ toCli' = Broadcast(toCli, connected \cap Controllers, InstructionsUpdated)
  /\ UNCHANGED <<variant, catalogVars, mediaUrl,
                 usedIds, serverVars, sock, toSrv, staffVars,
                 instruction, directVars, observerVars>>

\* ------------------------------------------------------- socket lifecycle
InitialMap == <<>>

\* App: setRole(role); the page mounts with its initial state (StaffDashboard
\* also calls fetchScenarios()).  Room-relayed App: io() and
\* emit('register_role', role).
SelectRole(x) ==
  /\ ~mounted[x]
  /\ variant = "direct" => x \in DirectClients
  /\ mounted' = [mounted EXCEPT ![x] = TRUE]
  /\ fetches' = IF x \in Controllers
                THEN [fetches EXCEPT ![x] = <<NewFetch>>] ELSE fetches
  /\ IF variant = "relay"
     THEN /\ sock' = [sock EXCEPT ![x] = "up"]
          /\ connected' = connected \cup {x}
          /\ toSrv' = [toSrv EXCEPT ![x] =
               <<RegisterRole(IF x \in Controllers THEN "staff" ELSE "patient")>>]
          /\ toCli' = [toCli EXCEPT ![x] = <<>>]
     ELSE UNCHANGED <<sock, connected, toSrv, toCli>>
  /\ rxConn' = IF x \in Displays THEN [rxConn EXCEPT ![x] = NoInst] ELSE rxConn
  /\ lastRx' = IF x \in Displays THEN [lastRx EXCEPT ![x] = NoRx] ELSE lastRx
  /\ UNCHANGED <<variant, catalogVars, mediaUrl,
                 storeVars, patientConnected, currentInstruction,
                 patient_room, staff_room, timers, sessionVars,
                 instructionsByScenario, staffPatientConnected, instruction,
                 directVars, script, freshLinks>>

\* socket.on('disconnect'): the socket has left its rooms; a re-check of the
\* patient room is scheduled one second later.
ServerDisconnect(x) ==
  /\ connected' = connected \ {x}
  /\ patient_room' = patient_room \ {x}
  /\ staff_room' = staff_room \ {x}
  /\ timers' = timers + 1

\* onBack: setRole(null) -> the effect's cleanup calls newSocket.disconnect();
\* the page unmounts and its state is discarded.
OnBack(x) ==
  /\ variant = "relay"
  /\ mounted[x]
  /\ timers < MaxTimers \/ x \notin connected
  /\ mounted' = [mounted EXCEPT ![x] = FALSE]
  /\ sock' = [sock EXCEPT ![x] = "none"]
  /\ toSrv' = [toSrv EXCEPT ![x] = <<>>]
  /\ toCli' = [toCli EXCEPT ![x] = <<>>]
  /\ IF x \in connected THEN ServerDisconnect(x)
     ELSE UNCHANGED <<connected, patient_room, staff_room, timers>>
  /\ IF x \in Controllers
     THEN /\ activeScenarioId' = [activeScenarioId EXCEPT ![x] = NULL]
          /\ currentStepIndex' = [currentStepIndex EXCEPT ![x] = 0]
          /\ viewMode' = [viewMode EXCEPT ![x] = "list"]
          /\ instructionsByScenario' =
               [instructionsByScenario EXCEPT ![x] = InitialMap]
          /\ staffPatientConnected' =
               [staffPatientConnected EXCEPT ![x] = FALSE]
          /\ fetches' = [fetches EXCEPT ![x] = <<>>]
          /\ script' = [script EXCEPT ![x] = NoScript]
          /\ UNCHANGED <<instruction, rxConn, lastRx>>
     ELSE /\ instruction' = [instruction EXCEPT ![x] = NoInst]
          /\ rxConn' = [rxConn EXCEPT ![x] = NoInst]
          /\ lastRx' = [lastRx EXCEPT ![x] = NoRx]
          /\ UNCHANGED <<sessionVars, instructionsByScenario,
                         staffPatientConnected, fetches, script>>
  /\ UNCHANGED <<variant, catalogVars, mediaUrl,
                 storeVars, patientConnected, currentInstruction,
                 directVars, freshLinks>>

\* A transport loss on which the display page would blank its screen.
TransportLostBlanksDisplay(x) ==
  /\ variant = "relay"
  /\ sock[x] = "up" /\ toSrv[x] = <<>>
  /\ timers < MaxTimers
  /\ sock' = [sock EXCEPT ![x] = "down"]
  /\ UNCHANGED toSrv
  /\ toCli' = [toCli EXCEPT ![x] = <<>>]
  /\ ServerDisconnect(x)
  /\ script' = IF x \in Controllers
               THEN [script EXCEPT ![x] = NoScript] ELSE script
  /\ UNCHANGED <<variant, catalogVars, mediaUrl,
                 storeVars, patientConnected, currentInstruction,
                 staffVars, directVars, rxConn, freshLinks,
                 lastRx>>
  /\ instruction' = IF x \in Displays
                    THEN [instruction EXCEPT ![x] = NoInst] ELSE instruction

\* The transport of a socket is lost: the server has handled what the client
\* had emitted, runs its disconnect handler, and what it had sent to the
\* client is gone.  The page and its state stay.
TransportLost(x) ==
  /\ variant = "relay"
  /\ sock[x] = "up" /\ toSrv[x] = <<>>
  /\ timers < MaxTimers
  /\ sock' = [sock EXCEPT ![x] = "down"]
  /\ UNCHANGED toSrv
  /\ toCli' = [toCli EXCEPT ![x] = <<>>]
  /\ ServerDisconnect(x)
  /\ script' = IF x \in Controllers
               THEN [script EXCEPT ![x] = NoScript] ELSE script
  /\ UNCHANGED <<variant, catalogVars, mediaUrl,
                 storeVars, patientConnected, currentInstruction,
                 staffVars, instruction, directVars, rxConn, freshLinks,
                 lastRx>>

\* socket.io-client reconnects by itself: the server sees a new connection in
\* no room.  App emitted register_role once, when it created the socket.
Reconnect(x) ==
  /\ variant = "relay"
  /\ sock[x] = "down"
  /\ sock' = [sock EXCEPT ![x] = "up"]
  /\ connected' = connected \cup {x}
  /\ rxConn' = IF x \in Displays THEN [rxConn EXCEPT ![x] = NoInst] ELSE rxConn
  /\ UNCHANGED <<variant, catalogVars, mediaUrl,
                 storeVars, patientConnected, currentInstruction,
                 patient_room, staff_room, timers, toSrv, toCli, staffVars,
                 instruction, directVars, script, freshLinks, lastRx>>


\* ------------------------------------------------------------ relay server
OthersScriptsReset(x) ==
  [c \in Controllers |-> IF c = x THEN script[c] ELSE NoScript]

\* register_role without the replay of the held instruction.
OnRegisterRoleNoReplay(x, role) ==
  IF role = "patient"
  THEN /\ Room((connected \cap Controllers) \cup {x})
       /\ patientConnected' = TRUE
       /\ patient_room' = patient_room \cup {x}
       /\ toCli' = Broadcast(toCli, connected \cap Controllers,
                             PatientStatus(TRUE))
       /\ UNCHANGED <<currentInstruction, staff_room, script>>
  ELSE /\ role = "staff"
       /\ Room({x})
       /\ staff_room' = staff_room \cup {x}
       /\ toCli' = [toCli EXCEPT ![x] =
                      Append(@, PatientStatus(patientConnected))]
       /\ UNCHANGED <<patientConnected, currentInstruction, patient_room,
                      script>>

\* socket.on('register_role', role)
OnRegisterRole(x, role) ==
  IF role = "patient"
  THEN /\ Room((connected \cap Controllers) \cup {x})
       /\ patientConnected' = TRUE
       /\ patient_room' = patient_room \cup {x}
       /\ toCli' =
            LET q == Broadcast(toCli, connected \cap Controllers,
                               PatientStatus(TRUE))
            IN IF currentInstruction # NoInst
               THEN [q EXCEPT ![x] =
                       Append(@, PlayInstruction(currentInstruction, "join"))]
               ELSE q
       /\ UNCHANGED <<currentInstruction, staff_room, script>>
  ELSE /\ role = "staff"
       /\ Room({x})
       /\ staff_room' = staff_room \cup {x}
       /\ toCli' = [toCli EXCEPT ![x] =
                      Append(@, PatientStatus(patientConnected))]
       /\ UNCHANGED <<patientConnected, currentInstruction, patient_room,
                      script>>

\* send_instruction relayed with io.emit, to every connected socket.
OnSendInstructionToAll(x, inst) ==
  /\ Room(connected)
  /\ currentInstruction' = inst
  /\ toCli' = Broadcast(toCli, connected, PlayInstruction(inst, "send"))
  /\ script' = OthersScriptsReset(x)
  /\ UNCHANGED <<patientConnected, patient_room, staff_room>>

\* send_instruction relayed to the patient room without being recorded.
OnSendInstructionUnrecorded(x, inst) ==
  /\ Room(patient_room)
  /\ toCli' = Broadcast(toCli, patient_room, PlayInstruction(inst, "send"))
  /\ script' = OthersScriptsReset(x)
  /\ UNCHANGED <<patientConnected, currentInstruction, patient_room,
                 staff_room>>

\* socket.on('send_instruction', instruction)
OnSendInstruction(x, inst) ==
  /\ Room(patient_room)
  /\ currentInstruction' = inst
  /\ toCli' = Broadcast(toCli, patient_room, PlayInstruction(inst, "send"))
  /\ script' = OthersScriptsReset(x)
  /\ UNCHANGED <<patientConnected, patient_room, staff_room>>

\* clear_instruction that forgets the held instruction without telling the
\* patient room.
OnClearInstructionSilent(x) ==
  /\ currentInstruction' = NoInst
  /\ script' = OthersScriptsReset(x)
  /\ UNCHANGED <<patientConnected, patient_room, staff_room, toCli>>

\* socket.on('clear_instruction')
OnClearInstruction(x) ==
  /\ Room(patient_room)
  /\ currentInstruction' = NoInst
  /\ toCli' = Broadcast(toCli, patient_room, ClearInstructionMsg)
  /\ script' = OthersScriptsReset(x)
  /\ UNCHANGED <<patientConnected, patient_room, staff_room>>

\* The server takes the next event of socket x.
ServerReceive(x) ==
  /\ variant = "relay"
  /\ x \in connected /\ toSrv[x] # <<>>
  /\ LET m == Head(toSrv[x]) IN
       CASE m.type = "register_role" -> OnRegisterRole(x, m.role)
         [] m.type = "send_instruction" -> OnSendInstruction(x, m.inst)
         [] m.type = "clear_instruction" -> OnClearInstruction(x)
  /\ toSrv' = [toSrv EXCEPT ![x] = Tail(@)]
  /\ UNCHANGED <<variant, catalogVars, mediaUrl,
                 storeVars, connected, timers, sock, staffVars,
                 instruction, directVars, rxConn, freshLinks, lastRx>>

\* setTimeout(..., 1000) of the disconnect handler fires.
RecheckPatientRoom ==
  /\ variant = "relay"
  /\ timers > 0
  /\ timers' = timers - 1
  /\ LET isPatientConnected == patient_room # {} IN
       IF patientConnected # isPatientConnected
       THEN /\ Room(connected \cap Controllers)
            /\ patientConnected' = isPatientConnected
            /\ toCli' = Broadcast(toCli, connected \cap Controllers,
                                  PatientStatus(isPatientConnected))
       ELSE UNCHANGED <<patientConnected, toCli>>
  /\ UNCHANGED <<variant, catalogVars, mediaUrl,
                 storeVars, currentInstruction, patient_room,
                 staff_room, connected, sock, toSrv, staffVars, instruction,
                 directVars, observerVars>>

\* ------------------------------------------------------- socket handlers
\* StaffDashboard: socket.on('patient_status' | 'scenarios_updated' |
\* 'instructions_updated')
StaffReceive(c) ==
  /\ variant = "relay"
  /\ c \in Controllers /\ sock[c] = "up" /\ toCli[c] # <<>>
  /\ LET m == Head(toCli[c]) IN
       IF m.type = "patient_status"
       THEN /\ staffPatientConnected' =
                 [staffPatientConnected EXCEPT ![c] = m.connected]
            /\ UNCHANGED fetches
       ELSE /\ m.type \in {"instructions_updated", "scenarios_updated"}
            /\ Len(fetches[c]) < MaxFetch
            /\ fetches' = [fetches EXCEPT ![c] = Append(@, NewFetch)]
            /\ UNCHANGED staffPatientConnected
  /\ toCli' = [toCli EXCEPT ![c] = Tail(@)]
  /\ UNCHANGED <<variant, catalogVars, mediaUrl,
                 storeVars, serverVars, sock, toSrv, mounted,
                 sessionVars, instructionsByScenario, instruction,
                 directVars, observerVars>>

\* Display handlers in which clear_instruction leaves the screen as it is.
PatientReceiveKeepsOnClear(d) ==
  /\ variant = "relay"
  /\ d \in Displays /\ sock[d] = "up" /\ toCli[d] # <<>>
  /\ LET m == Head(toCli[d]) IN
       IF m.type = "play_instruction"
       THEN /\ instruction' = [instruction EXCEPT ![d] = m.inst]
            /\ rxConn' = [rxConn EXCEPT ![d] = m.inst]
            /\ lastRx' = [lastRx EXCEPT ![d] = Rx("show", m.inst)]
       ELSE /\ m.type = "clear_instruction"
            /\ rxConn' = [rxConn EXCEPT ![d] = NoInst]
            /\ lastRx' = [lastRx EXCEPT ![d] = Rx("clear", NoInst)]
            /\ UNCHANGED instruction
  /\ toCli' = [toCli EXCEPT ![d] = Tail(@)]
  /\ UNCHANGED <<variant, catalogVars, mediaUrl,
                 storeVars, serverVars, sock, toSrv, staffVars,
                 directVars, script, freshLinks>>

\* PatientDisplay: socket.on('play_instruction' | 'clear_instruction')
PatientReceive(d) ==
  /\ variant = "relay"
  /\ d \in Displays /\ sock[d] = "up" /\ toCli[d] # <<>>
  /\ LET m == Head(toCli[d]) IN
       IF m.type = "play_instruction"
       THEN /\ instruction' = [instruction EXCEPT ![d] = m.inst]
            /\ rxConn' = [rxConn EXCEPT ![d] = m.inst]
            /\ lastRx' = [lastRx EXCEPT ![d] = Rx("show", m.inst)]
       ELSE /\ m.type = "clear_instruction"
            /\ instruction' = [instruction EXCEPT ![d] = NoInst]
            /\ rxConn' = [rxConn EXCEPT ![d] = NoInst]
            /\ lastRx' = [lastRx EXCEPT ![d] = Rx("clear", NoInst)]
  /\ toCli' = [toCli EXCEPT ![d] = Tail(@)]
  /\ UNCHANGED <<variant, catalogVars, mediaUrl,
                 storeVars, serverVars, sock, toSrv, staffVars,
                 directVars, script, freshLinks>>


\* ------------------------------------------------------ direct-code pairing
NoChan == [st |-> "unused", ctl |-> "c1", dsp |-> "d1", cev |-> "none",
           dev |-> "none"]

\* connectToPatient: peerRef.current.connect(fullId) and the three handlers
\* (k names the DataConnection object that connect() returns)
\* The pairing form is rendered while !patientConnected and its submit
\* button is disabled while isConnecting.
ConnectToPatient(c, d, k) ==
  /\ variant = "direct"
  /\ c \in Controllers /\ d \in Displays /\ mounted[c]
  /\ ~staffPatientConnected[c] /\ ~isConnecting[c]
  /\ chan[k].st = "unused"
  /\ \A j \in ConnIds : j < k => chan[j].st # "unused"
  /\ chan' = [chan EXCEPT ![k] =
       [st |-> "dialing", ctl |-> c, dsp |-> d, cev |-> "none",
        dev |-> "none"]]
  /\ isConnecting' = [isConnecting EXCEPT ![c] = TRUE]
  /\ UNCHANGED <<variant, catalogVars, mediaUrl,
                 storeVars, serverVars, socketVars, staffVars,
                 instruction, connRef, pendingSends, link, isConnected,
                 observerVars>>

\* The data channel opens, fails to open, or is lost.
ChannelOpens(k) ==
  /\ variant = "direct"
  /\ chan[k].st = "dialing" /\ mounted[chan[k].dsp] /\ mounted[chan[k].ctl]
  /\ chan' = [chan EXCEPT ![k].st = "open"]
  /\ UNCHANGED <<variant, catalogVars, mediaUrl,
                 storeVars, serverVars, socketVars, staffVars,
                 instruction, isConnecting, connRef, pendingSends, link,
                 isConnected, observerVars>>

ChannelFails(k) ==
  /\ variant = "direct"
  /\ chan[k].st = "dialing"
  /\ chan' = [chan EXCEPT ![k].st = "failed"]
  /\ UNCHANGED <<variant, catalogVars, mediaUrl,
                 storeVars, serverVars, socketVars, staffVars,
                 instruction, isConnecting, connRef, pendingSends, link,
                 isConnected, observerVars>>

ChannelCloses(k) ==
  /\ variant = "direct"
  /\ chan[k].st = "open"
  /\ chan' = [chan EXCEPT ![k].st = "closed"]
  /\ link' = [link EXCEPT ![k] = <<>>]
  /\ UNCHANGED <<variant, catalogVars, mediaUrl,
                 storeVars, serverVars, socketVars, staffVars,
                 instruction, isConnecting, connRef, pendingSends,
                 isConnected, observerVars>>

\* An open handler that sets the flag without storing the connection.
StaffOnOpenKeepsRef(k) ==
  /\ variant = "direct"
  /\ chan[k].st \in {"open", "closed"} /\ chan[k].cev = "none"
  /\ mounted[chan[k].ctl]
  /\ chan' = [chan EXCEPT ![k].cev = "open"]
  /\ staffPatientConnected' =
       [staffPatientConnected EXCEPT ![chan[k].ctl] = TRUE]
  /\ isConnecting' = [isConnecting EXCEPT ![chan[k].ctl] = FALSE]
  /\ UNCHANGED <<variant, catalogVars, mediaUrl,
                 storeVars, serverVars, socketVars, mounted,
                 sessionVars, instructionsByScenario, fetches, instruction,
                 connRef, pendingSends, link, isConnected, script, rxConn,
                 lastRx>>
  /\ freshLinks' = freshLinks \cup {k}

\* conn.on('open') of the console
StaffOnOpen(k) ==
  /\ variant = "direct"
  /\ chan[k].st \in {"open", "closed"} /\ chan[k].cev = "none"
  /\ mounted[chan[k].ctl]
  /\ chan' = [chan EXCEPT ![k].cev = "open"]
  /\ connRef' = [connRef EXCEPT ![chan[k].ctl] = k]
  /\ staffPatientConnected' =
       [staffPatientConnected EXCEPT ![chan[k].ctl] = TRUE]
  /\ isConnecting' = [isConnecting EXCEPT ![chan[k].ctl] = FALSE]
  /\ UNCHANGED <<variant, catalogVars, mediaUrl,
                 storeVars, serverVars, socketVars, mounted,
                 sessionVars, instructionsByScenario, fetches, instruction,
                 pendingSends, link, isConnected, script, rxConn, lastRx>>
  /\ freshLinks' = freshLinks \cup {k}

\* A close handler that also ends the console's session.
StaffOnCloseEndsSession(k) ==
  /\ variant = "direct"
  /\ chan[k].st = "closed" /\ chan[k].cev = "open"
  /\ mounted[chan[k].ctl]
  /\ chan' = [chan EXCEPT ![k].cev = "close"]
  /\ staffPatientConnected' =
       [staffPatientConnected EXCEPT ![chan[k].ctl] = FALSE]
  /\ connRef' = [connRef EXCEPT ![chan[k].ctl] = NULL]
  /\ activeScenarioId' = [activeScenarioId EXCEPT ![chan[k].ctl] = NULL]
  /\ currentStepIndex' = [currentStepIndex EXCEPT ![chan[k].ctl] = 0]
  /\ viewMode' = [viewMode EXCEPT ![chan[k].ctl] = "list"]
  /\ UNCHANGED <<variant, catalogVars, mediaUrl,
                 storeVars, serverVars, socketVars, mounted,
                 instructionsByScenario, fetches, instruction,
                 isConnecting, pendingSends, link, isConnected, observerVars>>

\* conn.on('close') of the console
StaffOnClose(k) ==
  /\ variant = "direct"
  /\ chan[k].st = "closed" /\ chan[k].cev = "open"
  /\ mounted[chan[k].ctl]
  /\ chan' = [chan EXCEPT ![k].cev = "close"]
  /\ staffPatientConnected' =
       [staffPatientConnected EXCEPT ![chan[k].ctl] = FALSE]
  /\ connRef' = [connRef EXCEPT ![chan[k].ctl] = NULL]
  /\ UNCHANGED <<variant, catalogVars, mediaUrl,
                 storeVars, serverVars, socketVars, mounted,
                 sessionVars, instructionsByScenario, fetches, instruction,
                 isConnecting, pendingSends, link, isConnected, observerVars>>

\* An error handler that reports the failure but leaves the pairing form in
\* its connecting state.
StaffOnErrorKeepsConnecting(k) ==
  /\ variant = "direct"
  /\ chan[k].st = "failed" /\ chan[k].cev = "none"
  /\ mounted[chan[k].ctl]
  /\ chan' = [chan EXCEPT ![k].cev = "error"]
  /\ UNCHANGED <<variant, catalogVars, mediaUrl,
                 storeVars, serverVars, socketVars, staffVars,
                 instruction, isConnecting, connRef, pendingSends, link,
                 isConnected, observerVars>>

\* conn.on('error') of the console
StaffOnError(k) ==
  /\ variant = "direct"
  /\ chan[k].st = "failed" /\ chan[k].cev = "none"
  /\ mounted[chan[k].ctl]
  /\ chan' = [chan EXCEPT ![k].cev = "error"]
  /\ isConnecting' = [isConnecting EXCEPT ![chan[k].ctl] = FALSE]
  /\ UNCHANGED <<variant, catalogVars, mediaUrl,
                 storeVars, serverVars, socketVars, staffVars,
                 instruction, connRef, pendingSends, link, isConnected,
                 observerVars>>

\* peer.on('connection') of the display
PatientOnConnection(k) ==
  /\ variant = "direct"
  /\ chan[k].st \in {"dialing", "open", "closed"} /\ chan[k].dev = "none"
  /\ mounted[chan[k].dsp]
  /\ chan' = [chan EXCEPT ![k].dev = "connection"]
  /\ UNCHANGED <<variant, catalogVars, mediaUrl,
                 storeVars, serverVars, socketVars, staffVars,
                 instruction, isConnecting, connRef, pendingSends, link,
                 isConnected, observerVars>>

\* conn.on('open') of the display
PatientOnOpen(k) ==
  /\ variant = "direct"
  /\ chan[k].st \in {"open", "closed"} /\ chan[k].dev = "connection"
  /\ chan' = [chan EXCEPT ![k].dev = "open"]
  /\ isConnected' = [isConnected EXCEPT ![chan[k].dsp] = TRUE]
  /\ UNCHANGED <<variant, catalogVars, mediaUrl,
                 storeVars, serverVars, socketVars, staffVars,
                 instruction, isConnecting, connRef, pendingSends, link,
                 observerVars>>

\* A data handler that takes an instruction only while the screen is idle.
PatientOnDataOnlyWhenIdle(k) ==
  /\ variant = "direct"
  /\ chan[k].st = "open" /\ chan[k].dev = "open" /\ link[k] # <<>>
  /\ LET data == Head(link[k]) IN
       instruction' = [instruction EXCEPT ![chan[k].dsp] =
         IF data.type = "instruction"
         THEN (IF @ = NoInst THEN data.payload ELSE @)
         ELSE IF data.type = "clear" THEN NoInst ELSE @]
  /\ link' = [link EXCEPT ![k] = Tail(@)]
  /\ lastRx' = [lastRx EXCEPT ![chan[k].dsp] =
       LET data == Head(link[k]) IN
         IF data.type = "instruction" THEN Rx("show", data.payload)
         ELSE IF data.type = "clear" THEN Rx("clear", NoInst) ELSE @]
  /\ UNCHANGED <<variant, catalogVars, mediaUrl,
                 storeVars, serverVars, socketVars, staffVars,
                 isConnecting, connRef, pendingSends, chan, isConnected,
                 script, rxConn, freshLinks>>

\* conn.on('data') of the display
PatientOnData(k) ==
  /\ variant = "direct"
  /\ chan[k].st = "open" /\ chan[k].dev = "open" /\ link[k] # <<>>
  /\ LET data == Head(link[k]) IN
       instruction' = [instruction EXCEPT ![chan[k].dsp] =
         IF data.type = "instruction" THEN data.payload
         ELSE IF data.type = "clear" THEN NoInst ELSE @]
  /\ link' = [link EXCEPT ![k] = Tail(@)]
  /\ lastRx' = [lastRx EXCEPT ![chan[k].dsp] =
       LET data == Head(link[k]) IN
         IF data.type = "instruction" THEN Rx("show", data.payload)
         ELSE IF data.type = "clear" THEN Rx("clear", NoInst) ELSE @]
  /\ UNCHANGED <<variant, catalogVars, mediaUrl,
                 storeVars, serverVars, socketVars, staffVars,
                 isConnecting, connRef, pendingSends, chan, isConnected,
                 script, rxConn, freshLinks>>

\* conn.on('close') of the display
PatientOnClose(k) ==
  /\ variant = "direct"
  /\ chan[k].st = "closed" /\ chan[k].dev = "open"
  /\ chan' = [chan EXCEPT ![k].dev = "close"]
  /\ isConnected' = [isConnected EXCEPT ![chan[k].dsp] = FALSE]
  /\ instruction' = [instruction EXCEPT ![chan[k].dsp] = NoInst]
  /\ UNCHANGED <<variant, catalogVars, mediaUrl,
                 storeVars, serverVars, socketVars, staffVars,
                 isConnecting, connRef, pendingSends, link, script, rxConn,
                 freshLinks>>
  /\ lastRx' = [lastRx EXCEPT ![chan[k].dsp] = Rx("close", NoInst)]

\* sendInstruction after `await inst.media.arrayBuffer()`:
\* connRef.current.send(...) on whatever connRef holds by then (a TypeError
\* ends the call when it holds null).
SendResolved(c) ==
  /\ variant = "direct"
  /\ c \in Controllers /\ pendingSends[c] # <<>>
  /\ \E i \in 1..Len(pendingSends[c]) :
       /\ pendingSends' = [pendingSends EXCEPT ![c] =
            [j \in 1..(Len(@) - 1) |-> IF j < i THEN @[j] ELSE @[j + 1]]]
       /\ IF connRef[c] # NULL /\ chan[connRef[c]].st = "open"
          THEN /\ Len(link[connRef[c]]) < MaxQueue
               /\ link' = [link EXCEPT ![connRef[c]] =
                    Append(@, DataInstruction(pendingSends[c][i]))]
          ELSE UNCHANGED link
  /\ UNCHANGED <<variant, catalogVars, mediaUrl,
                 storeVars, serverVars, socketVars, staffVars,
                 instruction, isConnecting, connRef, chan, isConnected,
                 observerVars>>

\* ------------------------------------------------- local store edits (db.ts)
\* handleSaveInstruction / confirmDeleteInstruction: the db call, then
\* fetchScenarios()
DbCreateInstruction(c, s) ==
  /\ variant = "direct"
  /\ mounted[c] /\ c \in Controllers /\ Len(fetches[c]) < MaxFetch
  /\ edits < MaxEdits /\ edits' = edits + 1
  /\ \E i \in Ids \ usedIds :
       /\ instructions' = instructions \cup {Row(i, s, MaxSortOrder(s) + 1)}
       /\ usedIds' = usedIds \cup {i}
  /\ fetches' = [fetches EXCEPT ![c] = Append(@, NewFetch)]
  /\ UNCHANGED <<variant, catalogVars, mediaUrl,
                 serverVars, socketVars, mounted, sessionVars,
                 instructionsByScenario, staffPatientConnected, instruction,
                 directVars, observerVars>>

DbUpdateInstruction(c, id) ==
  /\ variant = "direct"
  /\ mounted[c] /\ c \in Controllers /\ Len(fetches[c]) < MaxFetch
  /\ edits < MaxEdits /\ edits' = edits + 1
  /\ \E r \in instructions :
       /\ r.id = id
       /\ instructions' = (instructions \ {r}) \cup
                            {[r EXCEPT !.media = ~r.media]}
  /\ fetches' = [fetches EXCEPT ![c] = Append(@, NewFetch)]
  /\ UNCHANGED <<variant, catalogVars, mediaUrl,
                 usedIds, serverVars, socketVars, mounted,
                 sessionVars, instructionsByScenario, staffPatientConnected,
                 instruction, directVars, observerVars>>

DbDeleteInstruction(c, id) ==
  /\ variant = "direct"
  /\ mounted[c] /\ c \in Controllers /\ Len(fetches[c]) < MaxFetch
  /\ edits < MaxEdits /\ edits' = edits + 1
  /\ \E r \in instructions : r.id = id
  /\ instructions' = {r \in instructions : r.id # id}
  /\ fetches' = [fetches EXCEPT ![c] = Append(@, NewFetch)]
  /\ UNCHANGED <<variant, catalogVars, mediaUrl,
                 usedIds, serverVars, socketVars, mounted,
                 sessionVars, instructionsByScenario, staffPatientConnected,
                 instruction, directVars, observerVars>>

\* ------------------------------------------------------------ specification
\* The state after construction, the store holding rows.
InitWith(rows) ==
  /\ variant \in {"relay", "direct"}
  /\ instructions = rows
  /\ usedIds = {r.id : r \in rows}
  /\ edits = 0
  /\ patientConnected = FALSE
  /\ currentInstruction = NoInst
  /\ patient_room = {}
  /\ staff_room = {}
  /\ connected = {}
  /\ timers = 0
  /\ sock = [x \in Clients |-> "none"]
  /\ toSrv = [x \in Clients |-> <<>>]
  /\ toCli = [x \in Clients |-> <<>>]
  /\ mounted = [x \in Clients |-> FALSE]
  /\ activeScenarioId = [c \in Controllers |-> NULL]
  /\ currentStepIndex = [c \in Controllers |-> 0]
  /\ viewMode = [c \in Controllers |-> "list"]
  /\ instructionsByScenario = [c \in Controllers |-> InitialMap]
  /\ staffPatientConnected = [c \in Controllers |-> FALSE]
  /\ fetches = [c \in Controllers |-> <<>>]
  /\ instruction = [d \in Displays |-> NoInst]
  /\ isConnecting = [c \in Controllers |-> FALSE]
  /\ connRef = [c \in Controllers |-> NULL]
  /\ pendingSends = [c \in Controllers |-> <<>>]
  /\ chan = [k \in ConnIds |-> NoChan]
  /\ link = [k \in ConnIds |-> <<>>]
  /\ isConnected = [d \in Displays |-> FALSE]
  /\ script = [c \in Controllers |-> NoScript]
  /\ rxConn = [d \in Displays |-> NoInst]
  /\ freshLinks = {}
  /\ lastRx = [d \in Displays |-> NoRx]
  /\ scenarios = Scenarios
  /\ deleting = NoCall
  /\ updating = NoCall
  /\ mediaUrl = [d \in Displays |-> Null]

Init == InitWith(SeedRows)

\* One console and one display, either variant: session playback, step-list
\* refreshes and store edits, with the display link staying up in the
\* room-relayed variant.
Next ==
  \/ \E x \in {"c1", "d1"} : SelectRole(x)
  \/ \E x \in {"c1", "d1"} : ServerReceive(x)
  \/ StaffReceive("c1")
  \/ PatientReceive("d1")
  \/ FetchStep("c1")
  \/ \E s \in Scenarios : CreateInstruction(s)
  \/ \E i \in Ids : DeleteInstruction(i)
  \/ \E s \in Scenarios : StartSession("c1", s)
  \/ \E i \in Indices : GoToStep("c1", i)
  \/ EndSession("c1")
  \/ ConnectToPatient("c1", "d1", 1)
  \/ ChannelOpens(1)
  \/ ChannelFails(1)
  \/ ChannelCloses(1)
  \/ StaffOnOpen(1)
  \/ StaffOnClose(1)
  \/ StaffOnError(1)
  \/ PatientOnConnection(1)
  \/ PatientOnOpen(1)
  \/ PatientOnData(1)
  \/ PatientOnClose(1)
  \/ SendResolved("c1")
  \/ \E s \in Scenarios : DbCreateInstruction("c1", s)
  \/ \E i \in Ids : DbUpdateInstruction("c1", i)
  \/ \E i \in Ids : DbDeleteInstruction("c1", i)

Spec == Init /\ [][Next]_vars

\* Room-relayed variant, two consoles and one display: registration,
\* connectivity status, transport loss and reconnection, with console c1
\* starting and ending sessions.
RoomInit == Init /\ variant = "relay"

RoomNext ==
  \/ \E x \in Clients : SelectRole(x)
  \/ \E x \in Clients : OnBack(x)
  \/ \E x \in Clients : TransportLost(x)
  \/ \E x \in Clients : Reconnect(x)
  \/ \E x \in Clients : ServerReceive(x)
  \/ RecheckPatientRoom
  \/ \E c \in Controllers : StaffReceive(c)
  \/ \E d \in Displays : PatientReceive(d)
  \/ FetchStep("c1")
  \/ StartSession("c1", 1)
  \/ EndSession("c1")

RoomSpec == RoomInit /\ [][RoomNext]_vars

\* The connectivity part of the room-relayed variant alone, with the
\* scheduling the runtime guarantees: a queued event of a connected socket
\* is eventually handled and a pending timer eventually fires.  Role
\* selection, leaving and transport loss are up to the environment.
LinkNext ==
  \/ \E x \in Clients : SelectRole(x)
  \/ \E x \in Clients : OnBack(x)
  \/ \E x \in Clients : TransportLost(x)
  \/ \E x \in Clients : Reconnect(x)
  \/ \E x \in Clients : ServerReceive(x)
  \/ RecheckPatientRoom
  \/ \E c \in Controllers : StaffReceive(c)

LinkFairness ==
  /\ \A x \in Clients : WF_vars(ServerReceive(x))
  /\ WF_vars(RecheckPatientRoom)
  /\ \A c \in Controllers : WF_vars(StaffReceive(c))

LinkSpec == RoomInit /\ [][LinkNext]_vars /\ LinkFairness

\* One console and one display, either variant, with the display link coming
\* and going: transport loss and reconnection of the sockets in the
\* room-relayed variant, closing and re-pairing of the data connection in the
\* direct-code variant, while the console plays sessions.
LossNext ==
  \/ \E x \in {"c1", "d1"} : SelectRole(x)
  \/ \E x \in {"c1", "d1"} : OnBack(x)
  \/ \E x \in {"c1", "d1"} : TransportLost(x)
  \/ \E x \in {"c1", "d1"} : Reconnect(x)
  \/ \E x \in {"c1", "d1"} : ServerReceive(x)
  \/ RecheckPatientRoom
  \/ StaffReceive("c1")
  \/ PatientReceive("d1")
  \/ FetchStep("c1")
  \/ \E s \in Scenarios : StartSession("c1", s)
  \/ \E i \in Indices : GoToStep("c1", i)
  \/ EndSession("c1")
  \/ \E k \in ConnIds : ConnectToPatient("c1", "d1", k)
  \/ \E k \in ConnIds : ChannelOpens(k)
  \/ \E k \in ConnIds : ChannelFails(k)
  \/ \E k \in ConnIds : ChannelCloses(k)
  \/ \E k \in ConnIds : StaffOnOpen(k)
  \/ \E k \in ConnIds : StaffOnClose(k)
  \/ \E k \in ConnIds : StaffOnError(k)
  \/ \E k \in ConnIds : PatientOnConnection(k)
  \/ \E k \in ConnIds : PatientOnOpen(k)
  \/ \E k \in ConnIds : PatientOnData(k)
  \/ \E k \in ConnIds : PatientOnClose(k)
  \/ SendResolved("c1")
  \/ \E i \in Ids : DbUpdateInstruction("c1", i)

LossSpec == Init /\ [][LossNext]_vars

\* Direct-code pairing alone, with the scheduling the runtime guarantees: the
\* handler of an event that the connection has reported eventually runs.
\* Whether and when the transport reports anything is up to the environment.
DialInit == Init /\ variant = "direct"

DialNext ==
  \/ \E x \in DirectClients : SelectRole(x)
  \/ \E k \in ConnIds : ConnectToPatient("c1", "d1", k)
  \/ \E k \in ConnIds : ChannelOpens(k)
  \/ \E k \in ConnIds : ChannelFails(k)
  \/ \E k \in ConnIds : ChannelCloses(k)
  \/ \E k \in ConnIds : StaffOnOpen(k)
  \/ \E k \in ConnIds : StaffOnClose(k)
  \/ \E k \in ConnIds : StaffOnError(k)
  \/ \E k \in ConnIds : PatientOnConnection(k)
  \/ \E k \in ConnIds : PatientOnOpen(k)
  \/ \E k \in ConnIds : PatientOnClose(k)

DialFairness ==
  \A k \in ConnIds :
    /\ WF_vars(StaffOnOpen(k))
    /\ WF_vars(StaffOnClose(k))
    /\ WF_vars(StaffOnError(k))
    /\ WF_vars(PatientOnConnection(k))
    /\ WF_vars(PatientOnOpen(k))
    /\ WF_vars(PatientOnClose(k))

DialSpec == DialInit /\ [][DialNext]_vars /\ DialFairness

\* ----------------------------------------------------- session properties
\* The console's resolved step list of its active scenario.
ActiveSteps(c) == Loaded(c, activeScenarioId[c])

\* What a console call can emit: the socket's outgoing events, the frames on
\* the link and the sends waiting for their media bytes.
Emitted == <<toSrv, link, pendingSends>>

\* C1: whenever a session is active on a console, its cursor is a valid
\* position in the step list of the active scenario:
\* 0 <= currentStepIndex < number of steps.
C1_CursorInRange ==
  \A c \in Controllers :
    activeScenarioId[c] # NULL =>
      /\ 0 <= currentStepIndex[c]
      /\ currentStepIndex[c] < Len(ActiveSteps(c))

\* C2: during an active session, goToStep(index) with index < 0 or
\* index >= number of steps changes neither the cursor nor anything emitted
\* to the relay or sent on the link.
C2_OutOfRangeIgnored ==
  [][\A c \in Controllers : \A i \in Indices :
       ( /\ GoToStep(c, i)
         /\ activeScenarioId[c] # NULL
         /\ (i < 0 \/ i >= Len(ActiveSteps(c))) )
       => UNCHANGED <<currentStepIndex, Emitted>>]_vars

\* A console in an active session on which an advance past the last step has
\* been attempted.
C2_Witness ==
  \E c \in Controllers :
    /\ activeScenarioId[c] # NULL
    /\ script[c].phase = "run" /\ script[c].over
    /\ currentStepIndex[c] = Len(ActiveSteps(c)) - 1

\* Nothing of console c's session traffic is still on its way: the relay has
\* handled the console's events and every display has handled what the relay
\* sent it.
Settled(c) ==
  /\ toSrv[c] = <<>>
  /\ \A d \in Displays : toSrv[d] = <<>> /\ toCli[d] = <<>>

\* C3: room-relayed playback of an N-step scenario.  After startSession and
\* k advances the cursor is k <= N-1 and k+1 shows have been emitted, a
\* registered display ends up showing step k+1 (the first step after the
\* start, the N-th after the last advance); an advance is refused only at
\* cursor N-1, where it emits nothing; after endSession the display ends up
\* cleared.
C3_Playback ==
  \A c \in Controllers :
    LET sc == script[c] IN
      /\ sc.phase = "run" =>
           /\ variant = "relay"
           /\ activeScenarioId[c] # NULL
           /\ currentStepIndex[c] = sc.k
           /\ sc.k <= Len(ActiveSteps(c)) - 1
           /\ sc.sent = sc.k + 1
           /\ sc.over => sc.k = Len(ActiveSteps(c)) - 1
           /\ Settled(c) =>
                /\ currentInstruction = ActiveSteps(c)[sc.k + 1]
                /\ \A d \in patient_room :
                     instruction[d] = ActiveSteps(c)[sc.k + 1]
      /\ sc.phase = "ended" =>
           /\ activeScenarioId[c] = NULL
           /\ sc.sent = sc.k + 2
           /\ Settled(c) =>
                /\ currentInstruction = NoInst
                /\ \A d \in patient_room : instruction[d] = NoInst

\* A whole run has been played to a registered display: start, an advance to
\* the last step, a refused further advance, then the end, all delivered.
C3_Witness ==
  \E c \in Controllers : \E d \in patient_room :
    /\ script[c].phase = "ended" /\ script[c].over /\ script[c].k >= 1
    /\ Settled(c)
    /\ instruction[d] = NoInst

\* C4: endSession on a console with no active session changes nothing of the
\* session state and emits no clear.
C4_EndWhenIdle ==
  [][\A c \in Controllers :
       (EndSession(c) /\ activeScenarioId[c] = NULL)
       => UNCHANGED <<sessionVars, Emitted>>]_vars

\* C5: startSession on a scenario whose loaded step list is empty or absent
\* starts no session and sends nothing.
C5_StartWithoutSteps ==
  [][\A c \in Controllers : \A s \in Scenarios :
       (StartSession(c, s) /\ Len(Loaded(c, s)) = 0)
       => UNCHANGED <<sessionVars, Emitted>>]_vars

\* C6: while a session stays active on the same scenario, the step list the
\* console resolves steps against is the one it had at the start.
C6_SessionSnapshot ==
  [][\A c \in Controllers :
       (activeScenarioId[c] # NULL /\ activeScenarioId'[c] = activeScenarioId[c])
       => ActiveSteps(c)' = ActiveSteps(c)]_vars

\* ------------------------------------------------------ relay properties
\* C7: when a display registers, the relay sends it the held
\* currentInstruction in a play_instruction, and sends it nothing when it
\* holds none, so the display stays as it was.
C7_ReplayOnRegister ==
  [][\A d \in Displays :
       (d \notin patient_room /\ d \in patient_room')
       => /\ toCli'[d] =
               IF currentInstruction # NoInst
               THEN Append(toCli[d], PlayInstruction(currentInstruction, "join"))
               ELSE toCli[d]
          /\ instruction'[d] = instruction[d]]_vars

\* A display that registered while an instruction was held has the replayed
\* play_instruction at the head of its inbox.
C7_Witness ==
  \E d \in patient_room :
    /\ toCli[d] # <<>>
    /\ Head(toCli[d]).type = "play_instruction"
    /\ Head(toCli[d]).via = "join"
    /\ Head(toCli[d]).inst = currentInstruction

\* C8: a display that shows the instruction the relay holds and whose
\* connection is up, with nothing of the traffic still on its way, has
\* received that instruction on its present connection; so after a show, a
\* transport loss and a reconnection the display receives the step again
\* without any operator action.
C8_ReplayOnReconnect ==
  \A d \in Displays :
    ( /\ sock[d] = "up"
      /\ currentInstruction # NoInst
      /\ instruction[d] = currentInstruction
      /\ toSrv[d] = <<>> /\ toCli[d] = <<>>
      /\ \A c \in Controllers : toSrv[c] = <<>> )
    => rxConn[d] = currentInstruction

\* The relay's connectivity flag mirrors the membership of patient_room, a
\* pending one-second re-check aside.
FlagMatchesRoom ==
  timers = 0 => (patientConnected <=> patient_room # {})

\* C9: the relay's flag is true exactly when patient_room is non-empty (up
\* to a pending re-check), and once every status broadcast has been handled
\* each connected console's patientConnected equals the relay's flag.
C9_StatusAgreement ==
  /\ FlagMatchesRoom
  /\ \A c \in Controllers :
       (sock[c] = "up" /\ timers = 0 /\ toSrv[c] = <<>> /\ toCli[c] = <<>>)
       => staffPatientConnected[c] = patientConnected

\* C10: if from some point on no display is registered, then eventually the
\* relay's flag is false and every connected console shows the display as
\* disconnected, for good.
C10_EventuallyDisconnected ==
  <>[](patient_room = {})
  => <>[](/\ ~patientConnected
          /\ \A c \in Controllers : sock[c] = "up" => ~staffPatientConnected[c])

\* ---------------------------------------------------- pairing properties
\* C11: direct-code pairing outcomes.  When the console handles 'open' it
\* stores the link and is connected; when it handles 'close' it is
\* disconnected and holds no link; when the display handles 'close' it is
\* disconnected and shows nothing; when the console handles 'error' (the
\* failure is reported to the operator) it is no longer connecting, its
\* connectivity and stored link are as before, and no new attempt is dialed.
C11_PairingOutcomes ==
  [][\A k \in ConnIds :
       LET c == chan[k].ctl
           d == chan[k].dsp
       IN /\ (chan[k].cev # "open" /\ chan'[k].cev = "open")
               => connRef'[c] = k /\ staffPatientConnected'[c]
          /\ (chan[k].cev # "close" /\ chan'[k].cev = "close")
               => ~staffPatientConnected'[c] /\ connRef'[c] = NULL
          /\ (chan[k].dev # "close" /\ chan'[k].dev = "close")
               => ~isConnected'[d] /\ instruction'[d] = NoInst
          /\ (chan[k].cev # "error" /\ chan'[k].cev = "error")
               => /\ ~isConnecting'[c]
                  /\ staffPatientConnected'[c] = staffPatientConnected[c]
                  /\ connRef'[c] = connRef[c]
                  /\ \A j \in ConnIds :
                       chan'[j].st = "dialing" => chan[j].st = "dialing"]_vars

\* A first link was opened and then closed, both ends having handled the
\* close, and a second attempt ended in an error handled by the console.
C11_Witness ==
  /\ chan[1].cev = "close" /\ chan[1].dev = "close"
  /\ chan[2].cev = "error"
  /\ lastRx["d1"].kind = "close"

\* C12: every pairing attempt resolves: a console that is connecting
\* eventually leaves the connecting state, whatever the transport reports or
\* fails to report.
C12_PairingResolves ==
  \A c \in Controllers : isConnecting[c] ~> ~isConnecting[c]

\* C13: when a console learns that the display link is lost (its
\* connectivity flag goes from true to false while the page stays), its
\* active scenario, cursor, view mode and step lists are unchanged.
C13_LinkLossKeepsSession ==
  [][\A c \in Controllers :
       (staffPatientConnected[c] /\ ~staffPatientConnected'[c] /\ mounted'[c])
       => /\ activeScenarioId'[c] = activeScenarioId[c]
          /\ currentStepIndex'[c] = currentStepIndex[c]
          /\ viewMode'[c] = viewMode[c]
          /\ instructionsByScenario'[c] = instructionsByScenario[c]]_vars

\* A session that has advanced is still active on a console that has been
\* told, with everything delivered, that the display it was showing steps to
\* is gone.
C13_Witness ==
  \E c \in Controllers : \E d \in Displays :
    /\ script[c].phase = "run" /\ script[c].k >= 1
    /\ activeScenarioId[c] # NULL /\ viewMode[c] = "session"
    /\ sock[c] = "up" /\ toSrv[c] = <<>> /\ toCli[c] = <<>>
    /\ lastRx[d].kind = "show" /\ sock[d] = "down"
    /\ timers = 0 /\ ~patientConnected /\ ~staffPatientConnected[c]

\* While no console is connected, nothing is put on a link and no send is
\* left waiting: a show or clear issued then is dropped.
DroppedWhileDisconnected ==
  [][(variant = "direct" /\ \A c \in Controllers : ~DirectCanSend(c))
       => /\ \A k \in ConnIds : Len(link'[k]) <= Len(link[k])
          /\ \A c \in Controllers :
               Len(pendingSends'[c]) <= Len(pendingSends[c])]_vars

\* C14: direct-code mode has no replay: a show or clear issued while the
\* console is not connected is dropped, and a link that has opened carries
\* no message until the operator calls startSession, goToStep or endSession
\* again.
C14_NoReplayInDirect ==
  [][/\ (variant = "direct" /\ \A c \in Controllers : ~DirectCanSend(c))
          => /\ \A k \in ConnIds : Len(link'[k]) <= Len(link[k])
             /\ \A c \in Controllers :
                  Len(pendingSends'[c]) <= Len(pendingSends[c])
     /\ \A k \in freshLinks' : link'[k] = <<>>]_vars

\* ---------------------------------------------------- display properties
\* C15: whenever a display handles a clear message (clear_instruction from
\* the relay, { type: 'clear' } on the link) its shown instruction becomes
\* null, whatever it was.
C15_ClearBlanks ==
  [][/\ \A d \in Displays :
          (PatientReceive(d) /\ Head(toCli[d]).type = "clear_instruction")
          => instruction'[d] = NoInst
     /\ \A k \in ConnIds :
          (PatientOnData(k) /\ Head(link[k]).type = "clear")
          => instruction'[chan[k].dsp] = NoInst]_vars

\* A relayed display, still connected, whose last handled message is a clear
\* that followed a show on the same connection's session.
C15_Witness ==
  \E d \in patient_room : \E c \in Controllers :
    /\ sock[d] = "up"
    /\ lastRx[d].kind = "clear" /\ instruction[d] = NoInst
    /\ script[c].phase = "ended"

\* C16: the shown instruction is the payload of the last show the display
\* handled, unless a clear or a link close was handled after it (or nothing
\* was handled yet), in which case nothing is shown.
C16_ShowsLastReceived ==
  \A d \in Displays :
    instruction[d] =
      IF lastRx[d].kind = "show" THEN lastRx[d].inst ELSE NoInst

\* A direct-code display shows the second step of scenario 1, the last show
\* it handled, which replaced what it showed before.
C16_Witness ==
  \E d \in Displays :
    /\ variant = "direct"
    /\ lastRx[d].kind = "show" /\ lastRx[d].inst.id = 2
    /\ instruction[d] = lastRx[d].inst

\* C17: room-relayed mode: the instruction shown by a display page changes
\* only in a step in which the page handles a play_instruction or
\* clear_instruction from its inbox; transport loss, reconnection and status
\* events leave it as it was.
C17_OnlyMessagesChangeDisplay ==
  [][\A d \in Displays :
       ( /\ variant = "relay"
         /\ mounted[d] /\ mounted'[d]
         /\ instruction'[d] # instruction[d] )
       => /\ sock[d] = "up" /\ toCli[d] # <<>>
          /\ toCli'[d] = Tail(toCli[d])
          /\ Head(toCli[d]).type \in {"play_instruction", "clear_instruction"}
     ]_vars

\* A display that lost its transport and reconnected still shows the step it
\* had received, while the relay has since been given another one.
C17_Witness ==
  \E d \in Displays :
    /\ sock[d] = "up" /\ d \in connected /\ d \notin patient_room
    /\ instruction[d] # NoInst
    /\ currentInstruction \notin {NoInst, instruction[d]}

\* C18: room-relayed mode: when the relay handles send_instruction or
\* clear_instruction, every socket in patient_room, all of them displays, is
\* sent the play_instruction / clear_instruction and no other socket is sent
\* anything; a console's inbox never holds a play or clear.
C18_OnlyDisplaysReceive ==
  [][/\ \A x \in Clients :
          ( /\ ServerReceive(x)
            /\ Head(toSrv[x]).type \in {"send_instruction", "clear_instruction"} )
          => LET m == Head(toSrv[x])
                 out == IF m.type = "send_instruction"
                        THEN PlayInstruction(m.inst, "send")
                        ELSE ClearInstructionMsg
             IN /\ patient_room \subseteq Displays
                /\ \A y \in Clients :
                     toCli'[y] = IF y \in patient_room
                                 THEN Append(toCli[y], out) ELSE toCli[y]
     /\ \A c \in Controllers : \A i \in DOMAIN toCli'[c] :
          toCli'[c][i].type \notin {"play_instruction", "clear_instruction"}
     ]_vars

\* With both consoles and the display registered, the display has a relayed
\* show in its inbox and the consoles have nothing in theirs.
C18_Witness ==
  /\ staff_room = Controllers
  /\ \A c \in Controllers : toCli[c] = <<>>
  /\ \E d \in patient_room :
       /\ toCli[d] # <<>>
       /\ Head(toCli[d]).type = "play_instruction"
       /\ Head(toCli[d]).via = "send"

\* C19: a console has one activeScenarioId, so at most one active session;
\* startSession(B) while a session is active leaves the session on B with
\* cursor 0, and what that call emits, if anything, is a show of step 0 of B.
C19_LastStartWins ==
  [][\A c \in Controllers : \A s \in Scenarios :
       (StartSession(c, s) /\ activeScenarioId[c] # NULL)
       => LET insts == Loaded(c, s) IN
          /\ activeScenarioId'[c] = s
          /\ currentStepIndex'[c] = 0
          /\ toSrv'[c] =
               IF variant = "relay" /\ Len(insts) > 0
               THEN Append(toSrv[c], SendInstructionMsg(insts[1]))
               ELSE toSrv[c]
          /\ \A k \in ConnIds :
               \/ link'[k] = link[k]
               \/ /\ Len(insts) > 0
                  /\ link'[k] = Append(link[k], DataInstruction(insts[1]))
          /\ \/ pendingSends'[c] = pendingSends[c]
             \/ /\ Len(insts) > 0
                /\ pendingSends'[c] = Append(pendingSends[c], insts[1])]_vars

\* startSession(2) was called during a session on scenario 1 with nothing
\* in between: both shows are still queued, the session is on scenario 2 at
\* cursor 0 and the second show is step 0 of scenario 2.
C19_Witness ==
  \E c \in Controllers :
    /\ activeScenarioId[c] = 2 /\ currentStepIndex[c] = 0
    /\ Len(toSrv[c]) = 2
    /\ toSrv[c][1].type = "send_instruction"
    /\ toSrv[c][1].inst.scenario_id = 1
    /\ toSrv[c][2] = SendInstructionMsg(ActiveSteps(c)[1])

\* The links of display d that are open at both ends.
OpenLinks(d) ==
  {k \in ConnIds : chan[k].dsp = d /\ chan[k].st = "open" /\ chan[k].dev = "open"}

\* C20: at most one display is paired per link: at most one display is in
\* patient_room, a direct-code display has at most one open inbound link,
\* and the display never handles the close of one link (marking itself
\* disconnected and clearing its screen) while another link is open.
C20_OneDisplayPerLink ==
  [][/\ Cardinality(patient_room') <= 1
     /\ \A d \in Displays : Cardinality(OpenLinks(d)') <= 1
     /\ \A k \in ConnIds :
          (chan[k].dev = "open" /\ chan'[k].dev = "close")
          => OpenLinks(chan[k].dsp) \ {k} = {}]_vars

\* ------------------------------------------- step content (direct-code variant)
\* The session actions above carry a step as its row.  Here sendInstruction and
\* the display are followed field by field: a name is a sequence of
\* characters, a Blob is its bytes and its MIME type, an ArrayBuffer is bytes
\* only, and a JavaScript null is the record Null.
MaxLen == 2         \* characters of a step's name
MaxWire == 1        \* content messages on the link / awaiting their bytes

NoType == "null"    \* media_type: null
Chars == {"7", "-", "a"}
Names == UNION {[1..n -> Chars] : n \in 0..MaxLen}
Blob(bytes, type) == [null |-> FALSE, bytes |-> bytes, type |-> type]
Files == {Blob(<<137>>, "image/png"), Blob(<<0, 255>>, "video/mp4")}

\* Instruction of db.ts as db.createInstruction and handleSaveInstruction
\* store it: media_type is the file's type, or both are null.
Step(i, s, name, file) ==
  [id |-> i, scenario_id |-> s, name |-> name, media |-> file,
   media_type |-> IF file = Null THEN NoType ELSE file.type,
   bg_color |-> "bg-slate-900"]
Steps == {Step(1, 1, name, file) : name \in Names, file \in Files \cup {Null}}

\* blob.arrayBuffer()
ArrayBuffer(blob) == [null |-> FALSE, bytes |-> blob.bytes]

\* A payload that leaves the media kind out.
PayloadUntyped(inst, mediaBuffer) ==
  [id |-> inst.id, name |-> inst.name, media |-> mediaBuffer,
   media_type |-> NoType, bg_color |-> inst.bg_color]

\* the payload object literal of sendInstruction
Payload(inst, mediaBuffer) ==
  [id |-> inst.id, name |-> inst.name, media |-> mediaBuffer,
   media_type |-> inst.media_type, bg_color |-> inst.bg_color]

\* connRef.current.send({type: 'instruction', payload}); step records the
\* argument of the call and is read by no handler.
DataPayload(inst, mediaBuffer) ==
  [type |-> "instruction", payload |-> Payload(inst, mediaBuffer),
   step |-> inst]

\* sendInstruction(inst), up to its first await
SendInstructionCall(c, inst) ==
  /\ variant = "direct"
  /\ c \in Controllers /\ mounted[c]
  /\ IF ~DirectCanSend(c) THEN UNCHANGED <<pendingSends, link>>
     ELSE IF inst.media # Null
     THEN /\ Len(pendingSends[c]) < MaxWire
          /\ pendingSends' = [pendingSends EXCEPT ![c] = Append(@, inst)]
          /\ UNCHANGED link
     ELSE /\ Len(link[connRef[c]]) < MaxWire
          /\ link' = [link EXCEPT ![connRef[c]] =
                        IF chan[connRef[c]].st = "open"
                        THEN Append(@, DataPayload(inst, Null)) ELSE @]
          /\ UNCHANGED pendingSends
  /\ UNCHANGED <<variant, catalogVars, mediaUrl, storeVars, serverVars,
                 socketVars, staffVars, instruction, isConnecting, connRef,
                 chan, isConnected, observerVars>>

\* sendInstruction after `await inst.media.arrayBuffer()`
MediaResolved(c) ==
  /\ variant = "direct"
  /\ c \in Controllers /\ pendingSends[c] # <<>>
  /\ \E i \in 1..Len(pendingSends[c]) :
       LET inst == pendingSends[c][i] IN
       /\ pendingSends' = [pendingSends EXCEPT ![c] =
            [j \in 1..(Len(@) - 1) |-> IF j < i THEN @[j] ELSE @[j + 1]]]
       /\ IF connRef[c] # NULL /\ chan[connRef[c]].st = "open"
          THEN /\ Len(link[connRef[c]]) < MaxWire
               /\ link' = [link EXCEPT ![connRef[c]] =
                    Append(@, DataPayload(inst, ArrayBuffer(inst.media)))]
          ELSE UNCHANGED link
  /\ UNCHANGED <<variant, catalogVars, mediaUrl, storeVars, serverVars,
                 socketVars, staffVars, instruction, isConnecting, connRef,
                 chan, isConnected, observerVars>>

\* new Blob([instruction.media], {type: instruction.media_type || ...}) and
\* URL.createObjectURL(blob): the URL stands for the blob it refers to.
ObjectUrl(inst) ==
  IF inst = NoInst THEN Null
  ELSE IF inst.media = Null THEN Null
  ELSE Blob(inst.media.bytes,
            IF inst.media_type = NoType THEN "application/octet-stream"
            ELSE inst.media_type)

\* the display's effect on [instruction]
MediaUrlEffect(d) ==
  /\ variant = "direct"
  /\ d \in Displays /\ mounted[d]
  /\ mediaUrl[d] # ObjectUrl(instruction[d])
  /\ mediaUrl' = [mediaUrl EXCEPT ![d] = ObjectUrl(instruction[d])]
  /\ UNCHANGED <<variant, catalogVars, storeVars, serverVars, socketVars,
                 staffVars, instruction, directVars, observerVars>>

\* One console paired with one display in the direct-code variant, the
\* console sending steps of every content.
ContentInit == Init /\ variant = "direct"

ContentNext ==
  \/ \E x \in DirectClients : SelectRole(x)
  \/ ConnectToPatient("c1", "d1", 1)
  \/ ChannelOpens(1)
  \/ StaffOnOpen(1)
  \/ PatientOnConnection(1)
  \/ PatientOnOpen(1)
  \/ \E inst \in Steps : SendInstructionCall("c1", inst)
  \/ MediaResolved("c1")
  \/ PatientOnData(1)
  \/ MediaUrlEffect("d1")

ContentSpec == ContentInit /\ [][ContentNext]_vars

\* C21: in the direct-code variant, when the display takes an instruction
\* message off the connection it holds a payload whose id, text, background
\* and media kind are those of the step given to sendInstruction and whose
\* media bytes are the step's media bytes, null for a step without media; the
\* object URL it then creates wraps those bytes.
C21_RoundTrip ==
  [][\A k \in ConnIds :
       (/\ link[k] # <<>>
        /\ link'[k] = Tail(link[k])
        /\ chan'[k] = chan[k] /\ chan[k].st = "open"
        /\ Head(link[k]).type = "instruction")
       => LET s == Head(link[k]).step
              p == instruction'[chan[k].dsp]
          IN /\ p.id = s.id /\ p.name = s.name /\ p.bg_color = s.bg_color
             /\ p.media_type = s.media_type
             /\ s.media = Null => p.media = Null
             /\ s.media # Null => /\ p.media # Null
                                  /\ p.media.bytes = s.media.bytes
             /\ s.media # Null =>
                  /\ ObjectUrl(p).bytes = s.media.bytes
                  /\ ObjectUrl(p).type = s.media_type]_vars

C21_Witness ==
  /\ variant = "direct"
  /\ instruction["d1"] # NoInst
  /\ instruction["d1"].media # Null
  /\ instruction["d1"].media.bytes = <<0, 255>>
  /\ instruction["d1"].media_type = "video/mp4"
  /\ mediaUrl["d1"] = Blob(<<0, 255>>, "video/mp4")

\* ------------------------------------------------------ the scenario table
\* uuidv4() gives the rows of a new scenario identities in no order: the
\* stores that POST /api/scenarios or db.createScenario can leave for two
\* scenarios of two steps and one step.  sort_order is the rank of a step
\* among its scenario's steps by creation; db.ts stores no such field.
SeedIds ==
  {t \in Ids \X Ids \X Ids : t[1] # t[2] /\ t[1] # t[3] /\ t[2] # t[3]}
SeedStores ==
  {{Row(t[1], 1, 1), Row(t[2], 1, 2), Row(t[3], 2, 1)} : t \in SeedIds}

StoreInit == \E rows \in SeedStores : InitWith(rows)

\* instructionsStore.keys(): every key, in key order
StoreKeys == LET l == OrderByKey(instructions) IN [j \in DOMAIN l |-> l[j].id]

\* DELETE /api/scenarios/:id, by some console: one transaction, then
\* io.emit('scenarios_updated').  A later fetchScenarios finds no rows for the
\* scenario, which Loaded reads like the key missing from the map.
DeleteScenario(s) ==
  /\ variant = "relay"
  /\ \E c \in Controllers : mounted[c]
  /\ s \in scenarios
  /\ Room(connected \cap Controllers)
  /\ instructions' = {r \in instructions : r.scenario_id # s}
  /\ scenarios' = scenarios \ {s}
  /\ toCli' = Broadcast(toCli, connected \cap Controllers, ScenariosUpdated)
  /\ UNCHANGED <<variant, deleting, updating, mediaUrl, usedIds, edits,
                 serverVars, sock, toSrv, staffVars, instruction,
                 directVars, observerVars>>

\* db.deleteScenario(id), up to `await instructionsStore.keys()`
DbDeleteScenario(c, s) ==
  /\ variant = "direct"
  /\ mounted[c] /\ c \in Controllers
  /\ deleting = NoCall /\ s \in scenarios
  /\ scenarios' = scenarios \ {s}
  /\ deleting' = [phase |-> "keys", by |-> c, id |-> s, keys |-> <<>>]
  /\ UNCHANGED <<variant, updating, mediaUrl, storeVars, serverVars,
                 socketVars, staffVars, instruction, directVars,
                 observerVars>>

\* confirmDeleteScenario after `await db.deleteScenario(...)`: fetchScenarios()
DeleteDone(c) ==
  /\ Len(fetches[c]) < MaxFetch
  /\ deleting' = NoCall
  /\ fetches' = [fetches EXCEPT ![c] = Append(@, NewFetch)]

\* db.deleteScenario: keys() resolves with the keys stored at that moment
DbDeleteKeys ==
  /\ variant = "direct"
  /\ deleting.phase = "keys"
  /\ IF StoreKeys = <<>> THEN DeleteDone(deleting.by)
     ELSE /\ deleting' = [deleting EXCEPT !.phase = "loop", !.keys = StoreKeys]
          /\ UNCHANGED fetches
  /\ UNCHANGED <<variant, scenarios, updating, mediaUrl, storeVars,
                 serverVars, socketVars, mounted, sessionVars,
                 instructionsByScenario, staffPatientConnected, instruction,
                 directVars, observerVars>>

\* db.deleteScenario: one turn of the loop over the keys read before
DbDeleteNext ==
  /\ variant = "direct"
  /\ deleting.phase = "loop"
  /\ LET key == Head(deleting.keys) IN
       instructions' = {r \in instructions :
                          ~(r.id = key /\ r.scenario_id = deleting.id)}
  /\ IF Len(deleting.keys) = 1 THEN DeleteDone(deleting.by)
     ELSE /\ deleting' = [deleting EXCEPT !.keys = Tail(@)]
          /\ UNCHANGED fetches
  /\ UNCHANGED <<variant, scenarios, updating, mediaUrl, usedIds, edits,
                 serverVars, socketVars, mounted, sessionVars,
                 instructionsByScenario, staffPatientConnected, instruction,
                 directVars, observerVars>>

\* db.updateInstruction(id, data), up to `await instructionsStore.getItem(id)`
\* resolving with a stored step
DbUpdateRead(c, id) ==
  /\ variant = "direct"
  /\ mounted[c] /\ c \in Controllers
  /\ updating = NoCall
  /\ edits < MaxEdits /\ edits' = edits + 1
  /\ \E r \in instructions :
       /\ r.id = id
       /\ updating' = [phase |-> "write", by |-> c, inst |-> r]
  /\ UNCHANGED <<variant, scenarios, deleting, mediaUrl, instructions,
                 usedIds, serverVars, socketVars, staffVars, instruction,
                 directVars, observerVars>>

\* db.updateInstruction: setItem(id, {...inst, ...data}) with the step read
\* before, then fetchScenarios() of handleSaveInstruction
DbUpdateWrite ==
  /\ variant = "direct"
  /\ updating.phase = "write"
  /\ Len(fetches[updating.by]) < MaxFetch
  /\ LET r == updating.inst IN
       instructions' = {q \in instructions : q.id # r.id} \cup
                         {[r EXCEPT !.media = ~r.media]}
  /\ updating' = NoCall
  /\ fetches' = [fetches EXCEPT ![updating.by] = Append(@, NewFetch)]
  /\ UNCHANGED <<variant, scenarios, deleting, mediaUrl, usedIds, edits,
                 serverVars, socketVars, mounted, sessionVars,
                 instructionsByScenario, staffPatientConnected, instruction,
                 directVars, observerVars>>

\* One console editing the store, either variant: steps are created, changed
\* and deleted and scenarios are deleted, the calls of db.ts interleaving at
\* their awaits.
StoreNext ==
  \/ SelectRole("c1")
  \/ StaffReceive("c1")
  \/ FetchStep("c1")
  \/ \E s \in Scenarios : CreateInstruction(s)
  \/ \E i \in Ids : DeleteInstruction(i)
  \/ \E s \in Scenarios : DeleteScenario(s)
  \/ \E s \in Scenarios : DbCreateInstruction("c1", s)
  \/ \E i \in Ids : DbDeleteInstruction("c1", i)
  \/ \E i \in Ids : DbUpdateRead("c1", i)
  \/ DbUpdateWrite
  \/ \E s \in Scenarios : DbDeleteScenario("c1", s)
  \/ DbDeleteKeys
  \/ DbDeleteNext

StoreSpec == StoreInit /\ [][StoreNext]_vars

\* C22: in both stores, listSteps(scenarioId) returns the scenario's steps
\* in ascending sequence number, the order of their creation, whatever their
\* identities.
C22_ListInSequence ==
  \A s \in Scenarios :
    LET l == GetInstructions(s) IN
      \A i \in DOMAIN l : \A j \in DOMAIN l :
        i < j => l[i].sort_order < l[j].sort_order

\* C23: when no deleteScenario or updateStep call is in progress, every stored
\* step belongs to a scenario that exists: deleting a scenario leaves none of
\* its steps behind, whatever createStep / updateStep calls ran meanwhile.
C23_DeleteCascades ==
  (deleting = NoCall /\ updating = NoCall)
    => \A r \in instructions : r.scenario_id \in scenarios

\* ------------------------------------------------------ display rendering
Digits == {"7"}

AllDigits(name) == \A i \in DOMAIN name : name[i] \in Digits

\* isNaN(Number(name)) on names over Chars: Number() reads the empty string
\* as 0 and accepts a decimal literal with an optional sign.
IsNaNNumber(name) ==
  ~ \/ name = <<>>
    \/ AllDigits(name)
    \/ Len(name) > 1 /\ Head(name) = "-" /\ AllDigits(Tail(name))

\* (!mediaUrl || isNaN(Number(instruction.name))) && <h1>{instruction.name}</h1>
LabelShown(d) == mediaUrl[d] = Null \/ IsNaNNumber(instruction[d].name)

\* C24: on a display whose media effect has run, a shown step that carries
\* media has its text label suppressed exactly when the text is a non-empty
\* sequence of decimal digits, and a shown step without media always has its
\* label shown.
C24_LabelRule ==
  \A d \in Displays :
    (instruction[d] # NoInst /\ mediaUrl[d] = ObjectUrl(instruction[d]))
      => IF instruction[d].media # Null
         THEN ~LabelShown(d) <=>
                (/\ instruction[d].name # <<>>
                 /\ \A i \in DOMAIN instruction[d].name :
                      instruction[d].name[i] = "7")
         ELSE LabelShown(d)

\* C25: goToStep(index) on a console with no active session changes nothing
\* of the console's state and emits nothing, for every index.
C25_GoToStepWhenIdle ==
  [][\A c \in Controllers : \A i \in Indices :
       (GoToStep(c, i) /\ activeScenarioId[c] = NULL)
       => UNCHANGED <<sessionVars, instructionsByScenario,
                      staffPatientConnected, connRef, isConnecting,
                      Emitted>>]_vars

\* A paired direct-code console with its step lists loaded, idle, on which
\* goToStep has been called since the link opened: nothing was sent.
C25_Witness ==
  /\ variant = "direct"
  /\ activeScenarioId["c1"] = NULL
  /\ Loaded("c1", 1) # <<>>
  /\ connRef["c1"] = 1 /\ staffPatientConnected["c1"]
  /\ chan[1].st = "open" /\ chan[1].dev = "open"
  /\ freshLinks = {}
  /\ link[1] = <<>> /\ pendingSends["c1"] = <<>>
  /\ lastRx["d1"] = NoRx

\* C26: in the direct-code variant the console puts its show and clear
\* messages on the link in the order of the operator actions that caused
\* them: when a show that waited for its media bytes is put on the link, no
\* show triggered before it is still waiting and the link does not already
\* carry the clear of an end() that came after it.
C26_SendOrder ==
  [][\A c \in Controllers : \A k \in ConnIds :
       (/\ variant = "direct"
        /\ Len(pendingSends'[c]) < Len(pendingSends[c])
        /\ Len(link'[k]) > Len(link[k]))
       => /\ pendingSends'[c] = Tail(pendingSends[c])
          /\ ~(/\ activeScenarioId[c] = NULL
               /\ link[k] # <<>>
               /\ link[k][Len(link[k])].type = "clear")]_vars

\* Nothing is on its way anywhere: no socket event, no frame on a link, no
\* send waiting for its media bytes.
Quiescent ==
  /\ \A x \in Clients : toSrv[x] = <<>> /\ toCli[x] = <<>>
  /\ \A k \in ConnIds : link[k] = <<>>
  /\ \A c \in Controllers : pendingSends[c] = <<>>

\* Display d is connected: its socket is up and registered with the relay,
\* or its data connection has opened.
DisplayConnected(d) ==
  IF variant = "relay" THEN mounted[d] /\ sock[d] = "up" /\ d \in patient_room
  ELSE isConnected[d]

\* C27: when no console has an active session and nothing is outstanding,
\* every connected display is idle and, in the room-relayed variant, the
\* relay holds no current instruction; also after a console has left or lost
\* its connection without ending its session.
C27_IdleWithoutSession ==
  ((\A c \in Controllers : activeScenarioId[c] = NULL) /\ Quiescent)
    => /\ \A d \in Displays : DisplayConnected(d) => instruction[d] = NoInst
       /\ variant = "relay" => currentInstruction = NoInst

\* The console has handled every event its connections have reported.
EventsHandled(c) ==
  \A k \in ConnIds :
    chan[k].ctl = c =>
      \/ chan[k].st \in {"unused", "dialing"}
      \/ chan[k].st = "open" /\ chan[k].cev = "open"
      \/ chan[k].st = "closed" /\ chan[k].cev = "close"
      \/ chan[k].st = "failed" /\ chan[k].cev = "error"

CrewInit ==
  /\ variant = "relay"
  /\ instructions = SeedRows
  /\ usedIds = {r.id : r \in SeedRows}
  /\ edits = 0
  /\ patientConnected = TRUE
  /\ currentInstruction = NoInst
  /\ patient_room = Displays
  /\ staff_room = Controllers
  /\ connected = Clients
  /\ timers = 0
  /\ sock = [x \in Clients |-> "up"]
  /\ toSrv = [x \in Clients |-> <<>>]
  /\ toCli = [x \in Clients |-> <<>>]
  /\ mounted = [x \in Clients |-> TRUE]
  /\ activeScenarioId = [c \in Controllers |-> NULL]
  /\ currentStepIndex = [c \in Controllers |-> 0]
  /\ viewMode = [c \in Controllers |-> "list"]
  /\ instructionsByScenario =
       [c \in Controllers |->
          [s \in Scenarios |->
             OrderBySortOrder({r \in SeedRows : r.scenario_id = s})]]
  /\ staffPatientConnected = [c \in Controllers |-> TRUE]
  /\ fetches = [c \in Controllers |-> <<>>]
  /\ instruction = [d \in Displays |-> NoInst]
  /\ isConnecting = [c \in Controllers |-> FALSE]
  /\ connRef = [c \in Controllers |-> NULL]
  /\ pendingSends = [c \in Controllers |-> <<>>]
  /\ chan = [k \in ConnIds |-> NoChan]
  /\ link = [k \in ConnIds |-> <<>>]
  /\ isConnected = [d \in Displays |-> FALSE]
  /\ script = [c \in Controllers |-> NoScript]
  /\ rxConn = [d \in Displays |-> NoInst]
  /\ freshLinks = {}
  /\ lastRx = [d \in Displays |-> NoRx]
  /\ scenarios = Scenarios
  /\ deleting = NoCall
  /\ updating = NoCall
  /\ mediaUrl = [d \in Displays |-> Null]

\* Both consoles play sessions; every socket stays up and the store is left
\* alone.
CrewNext ==
  \/ \E x \in Controllers : ServerReceive(x)
  \/ \E d \in Displays : PatientReceive(d)
  \/ \E c \in Controllers : \E s \in Scenarios : StartSession(c, s)
  \/ \E c \in Controllers : \E i \in Indices : GoToStep(c, i)
  \/ \E c \in Controllers : EndSession(c)

CrewSpec == CrewInit /\ [][CrewNext]_vars

\* C29: while a console has an active session on a scenario with at least one
\* step and a display is connected, once nothing is outstanding the display
\* shows the step at that console's cursor.
C29_DisplayFollowsCursor ==
  \A c \in Controllers : \A d \in Displays :
    (/\ activeScenarioId[c] # NULL
     /\ Len(ActiveSteps(c)) >= 1
     /\ DisplayConnected(d)
     /\ Quiescent)
    => instruction[d].id = At(ActiveSteps(c), currentStepIndex[c]).id

\* C30: in the room-relayed variant the relay's currentInstruction is the
\* payload of the send_instruction it processed last, or null when it has
\* processed a clear_instruction since or no send_instruction at all,
\* whichever console sent the event; and whenever no event is in flight every
\* display registered with the relay shows exactly currentInstruction.
C30_RelayHoldsLastSend ==
  /\ [](variant = "relay" =>
         (Quiescent =>
            \A d \in patient_room : instruction[d] = currentInstruction))
  /\ [][variant = "relay" =>
         /\ \A x \in Clients :
              (ServerReceive(x) /\ Head(toSrv[x]).type = "send_instruction")
                => currentInstruction' = Head(toSrv[x]).inst
         /\ \A x \in Clients :
              (ServerReceive(x) /\ Head(toSrv[x]).type = "clear_instruction")
                => currentInstruction' = NoInst
         /\ currentInstruction' # currentInstruction
              => \E x \in Clients :
                   /\ ServerReceive(x)
                   /\ Head(toSrv[x]).type \in
                        {"send_instruction", "clear_instruction"}]_vars

\* The relay has taken a show from each console and the one of c2 last; the
\* display shows it and nothing is in flight.
C30_Witness ==
  /\ variant = "relay"
  /\ Quiescent
  /\ activeScenarioId["c1"] = 1 /\ activeScenarioId["c2"] = 2
  /\ currentInstruction.scenario_id = 2
  /\ \E d \in patient_room :
       instruction[d] = currentInstruction /\ lastRx[d].kind # "none"

=============================================================================
